---- MODULE Spec2Model ----
(***************************************************************************)
(* Model of the immune-repertoire pipeline of                              *)
(* Main_Disease_Classifier_with_CNN: the DataHandler / DataCleaner of      *)
(* src/data_cleaning.py, the ExploratoryAnalyzer of src/eda.py and the     *)
(* KmerPreprocessor of src/preprocessing.py.                               *)
(*                                                                         *)
(* Strings are sequences of one-character strings, so that substring       *)
(* tests, stripping and lengths are computed and not assumed.  A dict      *)
(* {name: DataFrame} is a sequence of [id, table] records with distinct    *)
(* ids (python dicts keep insertion order); a DataFrame is a sequence of   *)
(* rows.  Row index labels are not modelled: read_table gives a unique     *)
(* RangeIndex, so dropping by label is dropping by position.               *)
(***************************************************************************)
EXTENDS Integers, Sequences, FiniteSets, TLC

VARIABLES
    dir,              \* files of handler.collection_path: sequence of [id, table]
    dataset,          \* the dict object passed from stage to stage (mutated in place)
    pc,               \* position of complete_clean in its statement list (0: not running)
    err,              \* exception that left the DataCleaner call, "none" if none
    saved,            \* files written under data/cleaned_files: path -> table
    calls,            \* history: the DataCleaner stages run, [op, arg, ret]
    other_data,       \* a second dict a caller of the analyzer holds
    sequence_counts,  \* ExploratoryAnalyzer.sequence_counts
    seq_len_metrics,  \* ExploratoryAnalyzer.seq_len_metrics
    gene_usage,       \* ExploratoryAnalyzer.gene_usage
    jaccard_index,    \* ExploratoryAnalyzer.jaccard_index
    aa_counts,        \* ExploratoryAnalyzer.aa_counts
    eda_calls,        \* history: the metric calls made, [op, data, raised]
    subsample_size,   \* KmerPreprocessor.subsample_size
    num_of_samples,   \* KmerPreprocessor.num_of_samples
    kmer_size,        \* KmerPreprocessor.kmer_size
    base_kmer_counter,\* KmerPreprocessor.base_kmer_counter: dict as sequence of [key, val]
    subsamples,       \* complete_preprocess: subsamples, a sequence of [id, samples]
    kmers,            \* complete_preprocess: kmers, the list of feature rows
    kmer_df,          \* complete_preprocess: kmer_df, [columns, rows]
    kmer_pc,          \* position of complete_preprocess in its statement list (0: not running)
    kmer_err,         \* exception that left complete_preprocess, "none" if none
    kmer_saved        \* what save_data wrote to handler.save_path, <<>> if nothing

cleanVars == <<dir, dataset, pc, err, saved, calls>>

edaVars == <<other_data, sequence_counts, seq_len_metrics, gene_usage, jaccard_index, aa_counts, eda_calls>>
kmerVars == <<subsample_size, num_of_samples, kmer_size, base_kmer_counter, subsamples,
              kmers, kmer_df, kmer_pc, kmer_err, kmer_saved>>

vars == <<dir, dataset, pc, err, saved, calls, other_data, sequence_counts, seq_len_metrics,
          gene_usage, jaccard_index, aa_counts, eda_calls, subsample_size, num_of_samples,
          kmer_size, base_kmer_counter, subsamples, kmers, kmer_df, kmer_pc, kmer_err,
          kmer_saved>>

(***************************************************************************)
(* Bounds of the model.                                                    *)
(***************************************************************************)
MaxReps == 2
MaxTotalRows == 2
MaxFilterRows == 2
MaxCalls == 2
MaxEdaRows == 1
MaxReaderCalls == 2
MaxLegendFiles == 3
MaxEdaCalls == 2

(***************************************************************************)
(* Strings.                                                                *)
(***************************************************************************)
Rep(c, n) == [i \in 1..n |-> c]

\* python `sub in s`
Contains(sub, s) ==
    \E i \in 0..(Len(s) - Len(sub)) : SubSeq(s, i + 1, i + Len(sub)) = sub

startswith(s, c) == Len(s) >= 1 /\ s[1] = c

endswith(s, c) == Len(s) >= 1 /\ s[Len(s)] = c

IsSpace(c) == c \in {" ", "\t"}

RECURSIVE lstrip(_)
lstrip(s) == IF s # <<>> /\ IsSpace(Head(s)) THEN lstrip(Tail(s)) ELSE s

RECURSIVE rstrip(_)
rstrip(s) == IF s # <<>> /\ IsSpace(s[Len(s)]) THEN rstrip(SubSeq(s, 1, Len(s) - 1)) ELSE s

\* pandas Series.str.strip() on one value
strip(s) == rstrip(lstrip(s))

\* The pattern taken character for character, backslash included.
RegexVerbatim(pattern) == pattern

\* The literal a regex fragment of special_characters matches: a backslash
\* escapes the character after it.
RegexLiteral(pattern) ==
    IF Len(pattern) >= 2 /\ pattern[1] = "\\" THEN Tail(pattern) ELSE pattern

\* pandas Series.str.contains(pattern) on one value
str_contains(s, pattern) == Contains(RegexLiteral(pattern), s)

(***************************************************************************)
(* DataCleaner: configuration.                                             *)
(***************************************************************************)
supported_disease_types ==
    << <<"b", "r", "e", "a", "s", "t">>,
       <<"l", "y", "m", "p", "h", "o", "b", "l", "a", "s", "t", "i", "c", "_",
         "l", "e", "u", "k", "e", "m", "i", "a">>,
       <<"m", "y", "e", "l", "o", "i", "d", "_", "l", "e", "u", "k", "e", "m", "i", "a">>,
       <<"l", "i", "v", "e", "r">>,
       <<"l", "u", "n", "g">>,
       <<"g", "l", "i", "o", "b", "l", "a", "s", "t", "o", "m", "a">>,
       <<"e", "s", "o", "p", "h", "a", "g", "e", "a", "l">> >>

min_seq_size == 10

max_seq_size == 24

special_characters_no_underscore == << <<"\\", "+">>, <<"\\", "*">> >>

special_characters == << <<"\\", "+">>, <<"\\", "*">>, <<"_">> >>

(***************************************************************************)
(* DataHandler.collect_raw_tcrdb_files                                     *)
(***************************************************************************)
PRJ == <<"P", "R", "J">>

collect_raw_tcrdb_files_unchecked(directory) ==
    [raised |-> "none",
     repertoire_dict |-> SelectSeq(directory, LAMBDA sample : Contains(PRJ, sample.id))]

\* The dict built from the directory: only the files with 'PRJ' in the name.
collect_raw_tcrdb_files(directory) ==
    IF Len(directory) = 0
    THEN [raised |-> "FileNotFoundError", repertoire_dict |-> <<>>]
    ELSE [raised |-> "none",
          repertoire_dict |-> SelectSeq(directory, LAMBDA sample : Contains(PRJ, sample.id))]

(***************************************************************************)
(* DataCleaner.remove_special_characters                                   *)
(***************************************************************************)
\* One pass of the inner loop: drop the rows whose AASeq contains `character`.
DropCharacter(table, character) ==
    SelectSeq(table, LAMBDA row : ~str_contains(row.AASeq, character))

RECURSIVE DropCharacters(_, _)
DropCharacters(table, characters) ==
    IF characters = <<>> THEN table
    ELSE DropCharacters(DropCharacter(table, Head(characters)), Tail(characters))

remove_special_characters(data) ==
    [i \in DOMAIN data |->
        [id |-> data[i].id, table |-> DropCharacters(data[i].table, special_characters)]]

(***************************************************************************)
(* DataCleaner.assert_size                                                 *)
(***************************************************************************)
\* The column stripped of its leading whitespace only.
LeftStripColumn(table) ==
    [r \in DOMAIN table |-> [table[r] EXCEPT !.AASeq = lstrip(@)]]

StripColumn(table) ==
    [r \in DOMAIN table |-> [table[r] EXCEPT !.AASeq = strip(@)]]

SizeFilterExclusive(table) ==
    SelectSeq(StripColumn(table),
              LAMBDA row : Len(row.AASeq) > min_seq_size /\ Len(row.AASeq) < max_seq_size)

SizeFilterRawLength(table) ==
    LET keep == SelectSeq(table, LAMBDA row : Len(row.AASeq) >= min_seq_size
                                              /\ Len(row.AASeq) <= max_seq_size)
    IN  StripColumn(keep)

\* The trimmed length decides, the value stored is the one read.
SizeFilterKeepingRaw(table) ==
    SelectSeq(table, LAMBDA row : Len(strip(row.AASeq)) >= min_seq_size
                                  /\ Len(strip(row.AASeq)) <= max_seq_size)

\* One file: strip the AASeq column, then keep the rows within [min, max].
SizeFilter(table) ==
    SelectSeq(StripColumn(table),
              LAMBDA row : Len(row.AASeq) >= min_seq_size /\ Len(row.AASeq) <= max_seq_size)

assert_size(data) ==
    [i \in DOMAIN data |-> [id |-> data[i].id, table |-> SizeFilter(data[i].table)]]

(***************************************************************************)
(* DataCleaner.remove_incomplete_seqs                                      *)
(***************************************************************************)
ImgtFilterEither(table) ==
    SelectSeq(table, LAMBDA row : startswith(row.AASeq, "C") \/ endswith(row.AASeq, "F"))

ImgtFilter(table) ==
    SelectSeq(table, LAMBDA row : startswith(row.AASeq, "C") /\ endswith(row.AASeq, "F"))

remove_incomplete_seqs(data) ==
    [i \in DOMAIN data |-> [id |-> data[i].id, table |-> ImgtFilter(data[i].table)]]

(***************************************************************************)
(* DataCleaner.check_for_support, name_files, join_files                   *)
(***************************************************************************)
RECURSIVE LastSupported(_, _)
\* The last entry of the list that is a substring.
LastSupported(diseases, disease_to_check) ==
    IF diseases = <<>> THEN [raised |-> "DiseaseNotSupportedError", disease |-> <<>>]
    ELSE IF Contains(diseases[Len(diseases)], disease_to_check)
         THEN [raised |-> "none", disease |-> diseases[Len(diseases)]]
         ELSE LastSupported(SubSeq(diseases, 1, Len(diseases) - 1), disease_to_check)

RECURSIVE FirstSupported(_, _)
FirstSupported(diseases, disease_to_check) ==
    IF diseases = <<>> THEN [raised |-> "DiseaseNotSupportedError", disease |-> <<>>]
    ELSE IF Contains(Head(diseases), disease_to_check)
         THEN [raised |-> "none", disease |-> Head(diseases)]
         ELSE FirstSupported(Tail(diseases), disease_to_check)

check_for_support(disease_to_check) ==
    FirstSupported(supported_disease_types, disease_to_check)

name_files(cancer_type) == <<"data/cleaned_files/", cancer_type, ".csv">>

RECURSIVE concat(_)
\* pd.concat(frames, ignore_index=True)
concat(frames) ==
    IF frames = <<>> THEN <<>> ELSE Head(frames) \o concat(Tail(frames))

\* The frame join_files writes for the label resolved from one repertoire id.
DiseaseFrame(cleaned_data, disease_to_concat) ==
    LET cancer_type_files ==
            SelectSeq(cleaned_data, LAMBDA file : Contains(disease_to_concat, file.id))
    IN  IF Len(cancer_type_files) = 1
        THEN cancer_type_files[1].table
        ELSE concat([k \in DOMAIN cancer_type_files |-> cancer_type_files[k].table])

RECURSIVE JoinLoopSkipUnsupported(_, _, _)
JoinLoopSkipUnsupported(cleaned_data, i, files) ==
    IF i > Len(cleaned_data) THEN [raised |-> "none", files |-> files]
    ELSE LET support == check_for_support(cleaned_data[i].id)
         IN  IF support.raised # "none"
             THEN JoinLoopSkipUnsupported(cleaned_data, i + 1, files)
             ELSE JoinLoopSkipUnsupported(cleaned_data, i + 1,
                           (name_files(support.disease)
                                :> DiseaseFrame(cleaned_data, support.disease)) @@ files)

RECURSIVE JoinLoop(_, _, _)
\* The loop of join_files from its i-th key on, `files` being what is on disk.
JoinLoop(cleaned_data, i, files) ==
    IF i > Len(cleaned_data) THEN [raised |-> "none", files |-> files]
    ELSE LET support == check_for_support(cleaned_data[i].id)
         IN  IF support.raised # "none"
             THEN [raised |-> support.raised, files |-> files]
             ELSE JoinLoop(cleaned_data, i + 1,
                           (name_files(support.disease)
                                :> DiseaseFrame(cleaned_data, support.disease)) @@ files)

join_files(cleaned_data, files) == JoinLoop(cleaned_data, 1, files)

(***************************************************************************)
(* DataCleaner.complete_clean: its statements, in order.                   *)
(***************************************************************************)
complete_clean_join_first ==
    <<"collect_files", "remove_special_characters", "join_files",
      "assert_size", "remove_incomplete_seqs">>

complete_clean ==
    <<"collect_files", "remove_special_characters", "assert_size",
      "remove_incomplete_seqs", "join_files">>

\* The statement complete_clean is about to run.
Stmt == IF pc \in DOMAIN complete_clean THEN complete_clean[pc] ELSE "return"

Running == err = "none"

(***************************************************************************)
(* Inputs: file names, rows, and the collections built from them.          *)
(***************************************************************************)
CDR3(n) == <<"C">> \o Rep("A", n - 2) \o <<"F">>

Row(seq, v) == [AASeq |-> seq, Vregion |-> v, Dregion |-> "TRBD1", Jregion |-> "TRBJ1-1"]

Tsv == <<".", "t", "s", "v">>

Breast == supported_disease_types[1]

Lung == supported_disease_types[5]

\* Names of files in data/raw_files: two breast projects, a lung project, a
\* project naming two diseases, a project of an unsupported disease, and a
\* sample file (no 'PRJ' in its name).
FileNames ==
    { PRJ \o <<"_">> \o Breast \o <<"_", "1">> \o Tsv,
      PRJ \o <<"_">> \o Breast \o <<"_", "2">> \o Tsv,
      PRJ \o <<"_">> \o Lung \o Tsv,
      PRJ \o <<"_">> \o Lung \o <<"_">> \o Breast \o Tsv,
      PRJ \o <<"_", "m", "e", "l", "a", "n", "o", "m", "a">> \o Tsv,
      <<"s", "a", "m", "p", "l", "e", "_">> \o Lung \o Tsv }

\* Rows of the files complete_clean reads: two clean ones, a bad read, a
\* clean one between whitespace and one that does not start with 'C'.
CleanRows ==
    { Row(CDR3(10), "TRBV1"),
      Row(CDR3(11), "TRBV2"),
      Row(<<"C", "A", "S", "+", "L">> \o Rep("A", 5) \o <<"F">>, "TRBV1"),
      Row(<<" ">> \o CDR3(10) \o <<"\t">>, "TRBV1"),
      Row(<<"A">> \o Rep("S", 8) \o <<"F">>, "TRBV1") }

\* Rows given to the filters called one by one: the boundary lengths, each
\* special character, surrounding whitespace, and each IMGT violation.
FilterRows ==
    { Row(CDR3(10), "TRBV1"),
      Row(CDR3(10), "TRBV2"),
      Row(CDR3(24), "TRBV1"),
      Row(CDR3(9), "TRBV1"),
      Row(CDR3(25), "TRBV1"),
      Row(CDR3(5), "TRBV1"),
      Row(<<"C", "A", "S", "+", "L">> \o Rep("A", 5) \o <<"F">>, "TRBV1"),
      Row(<<"C", "A", "S", "*", "L">> \o Rep("A", 5) \o <<"F">>, "TRBV1"),
      Row(<<"C", "A", "S", "_", "L">> \o Rep("A", 5) \o <<"F">>, "TRBV1"),
      Row(<<" ">> \o CDR3(24) \o <<"\t">>, "TRBV1"),
      Row(<<" ">> \o CDR3(9) \o <<" ">>, "TRBV1"),
      Row(<<"A">> \o Rep("S", 8) \o <<"F">>, "TRBV1"),
      Row(<<"C">> \o Rep("S", 8) \o <<"Y">>, "TRBV1") }

FilterNames ==
    << PRJ \o <<"1", "2", "3">> \o Tsv, PRJ \o <<"4", "5", "6">> \o Tsv >>

\* The file of the unit tests that contains abnormal reads: a bad read, a
\* short sequence and two sequences within the norms.
AbnormalReads ==
    { Row(<<"C", "A", "S", "+", "L">> \o Rep("A", 5) \o <<"F">>, "TRBV1"),
      Row(CDR3(5), "TRBV1"),
      Row(CDR3(10), "TRBV1"),
      Row(CDR3(24), "TRBV2") }

\* That file with its rows in any order, alone in the collection.
FilterFixtures ==
    { <<[id |-> FilterNames[1], table |-> t]>> :
          t \in {f \in [1..Cardinality(AbnormalReads) -> AbnormalReads] :
                     \A a, b \in DOMAIN f : f[a] = f[b] => a = b} }

SeqsUpTo(S, n) == UNION {[1..k -> S] : k \in 0..n}

NameSeqs(names, n) ==
    {s \in SeqsUpTo(names, n) : \A i, j \in DOMAIN s : s[i] = s[j] => i = j}

\* Which file each of k rows belongs to, files taken in order.
Owners(k, n) == {o \in [1..k -> 1..n] : \A i \in 1..(k - 1) : o[i] <= o[i + 1]}

BuildDict(names, rows, owner) ==
    [j \in DOMAIN names |->
        [id |-> names[j],
         table |-> SubSeq(rows,
                          1 + Cardinality({i \in DOMAIN rows : owner[i] < j}),
                          Cardinality({i \in DOMAIN rows : owner[i] <= j}))]]

\* The dicts of the given names whose tables hold at most n rows in all.
Dicts(names, rowSet, n) ==
    UNION {{BuildDict(names, rows, owner) : owner \in Owners(Len(rows), Len(names))} :
           rows \in SeqsUpTo(rowSet, n)}

EmptyMap == <<>>

\* ExploratoryAnalyzer.__init__
AnalyzerInit ==
    /\ sequence_counts = EmptyMap
    /\ seq_len_metrics = [reps |-> EmptyMap, stats |-> EmptyMap]
    /\ gene_usage = EmptyMap
    /\ jaccard_index = EmptyMap
    /\ aa_counts = EmptyMap
    /\ eda_calls = <<>>

\* No KmerPreprocessor at work.
NoPreprocessor ==
    /\ subsample_size = 0
    /\ num_of_samples = 0
    /\ kmer_size = 0
    /\ base_kmer_counter = <<>>
    /\ subsamples = <<>>
    /\ kmers = <<>>
    /\ kmer_df = [columns |-> <<>>, rows |-> <<>>]
    /\ kmer_pc = 0
    /\ kmer_err = "none"
    /\ kmer_saved = <<>>

(***************************************************************************)
(* complete_clean on a directory of raw files.                             *)
(***************************************************************************)
Init ==
    /\ \E names \in NameSeqs(FileNames, MaxReps) :
           dir \in Dicts(names, CleanRows, MaxTotalRows)
    /\ dataset = <<>>
    /\ pc = 1
    /\ err = "none"
    /\ saved = EmptyMap
    /\ calls = <<>>
    /\ other_data = <<>>
    /\ AnalyzerInit
    /\ NoPreprocessor

CollectFiles ==
    /\ Running /\ Stmt = "collect_files"
    /\ LET r == collect_raw_tcrdb_files(dir)
       IN  /\ err' = r.raised
           /\ dataset' = r.repertoire_dict
           /\ pc' = IF r.raised = "none" THEN pc + 1 ELSE pc
    /\ UNCHANGED <<dir, saved, calls>>
    /\ UNCHANGED edaVars
    /\ UNCHANGED kmerVars

RemoveSpecialCharacters ==
    /\ Running /\ Stmt = "remove_special_characters"
    /\ dataset' = remove_special_characters(dataset)
    /\ calls' = Append(calls, [op |-> "remove_special_characters", arg |-> dataset,
                               ret |-> dataset'])
    /\ pc' = pc + 1
    /\ UNCHANGED <<dir, err, saved>>
    /\ UNCHANGED edaVars
    /\ UNCHANGED kmerVars

AssertSize ==
    /\ Running /\ Stmt = "assert_size"
    /\ dataset' = assert_size(dataset)
    /\ calls' = Append(calls, [op |-> "assert_size", arg |-> dataset, ret |-> dataset'])
    /\ pc' = pc + 1
    /\ UNCHANGED <<dir, err, saved>>
    /\ UNCHANGED edaVars
    /\ UNCHANGED kmerVars

RemoveIncompleteSeqs ==
    /\ Running /\ Stmt = "remove_incomplete_seqs"
    /\ dataset' = remove_incomplete_seqs(dataset)
    /\ calls' = Append(calls, [op |-> "remove_incomplete_seqs", arg |-> dataset,
                               ret |-> dataset'])
    /\ pc' = pc + 1
    /\ UNCHANGED <<dir, err, saved>>
    /\ UNCHANGED edaVars
    /\ UNCHANGED kmerVars

JoinFiles ==
    /\ Running /\ Stmt = "join_files"
    /\ LET r == join_files(dataset, saved)
       IN  /\ err' = r.raised
           /\ saved' = r.files
           /\ pc' = IF r.raised = "none" THEN pc + 1 ELSE pc
    /\ calls' = Append(calls, [op |-> "join_files", arg |-> dataset, ret |-> <<>>])
    /\ UNCHANGED <<dir, dataset>>
    /\ UNCHANGED edaVars
    /\ UNCHANGED kmerVars

Next ==
    \/ CollectFiles
    \/ RemoveSpecialCharacters
    \/ AssertSize
    \/ RemoveIncompleteSeqs
    \/ JoinFiles

Spec == Init /\ [][Next]_vars

(***************************************************************************)
(* The filters called one by one on a dict, as the unit tests call them.   *)
(***************************************************************************)
InitFilter ==
    /\ \/ \E n \in 0..Len(FilterNames) :
              dataset \in Dicts(SubSeq(FilterNames, 1, n), FilterRows, MaxFilterRows)
       \/ dataset \in FilterFixtures
    /\ dir = <<>>
    /\ pc = 0
    /\ err = "none"
    /\ saved = EmptyMap
    /\ calls = <<>>
    /\ other_data = <<>>
    /\ AnalyzerInit
    /\ NoPreprocessor

CallRemoveSpecialCharacters ==
    /\ Len(calls) < MaxCalls
    /\ dataset' = remove_special_characters(dataset)
    /\ calls' = Append(calls, [op |-> "remove_special_characters", arg |-> dataset,
                               ret |-> dataset'])
    /\ UNCHANGED <<dir, pc, err, saved>>
    /\ UNCHANGED edaVars
    /\ UNCHANGED kmerVars

CallAssertSize ==
    /\ Len(calls) < MaxCalls
    /\ dataset' = assert_size(dataset)
    /\ calls' = Append(calls, [op |-> "assert_size", arg |-> dataset, ret |-> dataset'])
    /\ UNCHANGED <<dir, pc, err, saved>>
    /\ UNCHANGED edaVars
    /\ UNCHANGED kmerVars

CallRemoveIncompleteSeqs ==
    /\ Len(calls) < MaxCalls
    /\ dataset' = remove_incomplete_seqs(dataset)
    /\ calls' = Append(calls, [op |-> "remove_incomplete_seqs", arg |-> dataset,
                               ret |-> dataset'])
    /\ UNCHANGED <<dir, pc, err, saved>>
    /\ UNCHANGED edaVars
    /\ UNCHANGED kmerVars

NextFilter ==
    \/ CallRemoveSpecialCharacters
    \/ CallAssertSize
    \/ CallRemoveIncompleteSeqs

SpecFilter == InitFilter /\ [][NextFilter]_vars

(***************************************************************************)
(* Properties of the Cleaning Pipeline.                                    *)
(***************************************************************************)
Labels == {supported_disease_types[k] : k \in DOMAIN supported_disease_types}

\* No supported disease label is a substring of the id.
Unmatched(id) == \A d \in Labels : ~Contains(d, id)

\* The label an id resolves to: the first vocabulary entry it contains.
ResolvedLabel(id) ==
    LET k == CHOOSE k \in DOMAIN supported_disease_types :
                 /\ Contains(supported_disease_types[k], id)
                 /\ \A j \in 1..(k - 1) : ~Contains(supported_disease_types[j], id)
    IN  supported_disease_types[k]

JoinCalls == {i \in DOMAIN calls : calls[i].op = "join_files"}

JoinReturned == JoinCalls # {} /\ err = "none"

\* The positions, in collection order, of the repertoires resolving to label.
Members(data, label) == {i \in DOMAIN data : ResolvedLabel(data[i].id) = label}

Occurrences(row, table) == Cardinality({r \in DOMAIN table : table[r] = row})

RECURSIVE SumOver(_, _, _)
\* Occurrences of row summed over the tables of data at the positions in S.
SumOver(row, data, S) ==
    IF S = {} THEN 0
    ELSE LET i == CHOOSE i \in S : TRUE
         IN  Occurrences(row, data[i].table) + SumOver(row, data, S \ {i})

AllRows(data) == UNION {{data[i].table[r] : r \in DOMAIN data[i].table} : i \in DOMAIN data}

RECURSIVE ConcatInOrder(_, _, _)
\* The tables of data at the positions S from position i on, one after another.
ConcatInOrder(data, S, i) ==
    IF i > Len(data) THEN <<>>
    ELSE (IF i \in S THEN data[i].table ELSE <<>>) \o ConcatInOrder(data, S, i + 1)

\* C1: when join_files raises DiseaseNotSupportedError, no output table has
\* been written for any disease, wherever the unmatched id stands.
C1_NoPartialOutput == err = "DiseaseNotSupportedError" => DOMAIN saved = {}

\* C2: join_files called on a collection holding an id that contains no
\* supported label raises DiseaseNotSupportedError and does not return.
C2_UnsupportedRaises ==
    \A i \in JoinCalls :
        (\E f \in DOMAIN calls[i].arg : Unmatched(calls[i].arg[f].id))
            => err = "DiseaseNotSupportedError" /\ Stmt = "join_files"

\* C2 witness: join_files raised on a collection whose first id is supported.
C2_Witness ==
    /\ err = "DiseaseNotSupportedError"
    /\ \E i \in JoinCalls :
           /\ Len(calls[i].arg) >= 2
           /\ ~Unmatched(calls[i].arg[1].id)
           /\ Unmatched(calls[i].arg[2].id)

\* C3: after join_files, the table written for label L holds the rows of
\* exactly the repertoires whose resolved label is L: each row occurs in it as
\* often as in those repertoires together, and a label no repertoire resolves
\* to has no table.
C3_GroupsByResolvedLabel ==
    JoinReturned =>
        \A L \in Labels :
            IF Members(dataset, L) = {}
            THEN name_files(L) \notin DOMAIN saved
            ELSE /\ name_files(L) \in DOMAIN saved
                 /\ \A row \in AllRows(dataset) :
                        Occurrences(row, saved[name_files(L)])
                            = SumOver(row, dataset, Members(dataset, L))

\* C4: after join_files, the table written for a disease group is the
\* concatenation of the group's tables in collection order (the one table of
\* a group of one), the group being the repertoires resolving to the label.
C4_GroupConcatenation ==
    JoinReturned =>
        \A L \in Labels :
            Members(dataset, L) # {} =>
                /\ name_files(L) \in DOMAIN saved
                /\ saved[name_files(L)] = ConcatInOrder(dataset, Members(dataset, L), 1)

StageOrder ==
    <<"remove_special_characters", "assert_size", "remove_incomplete_seqs", "join_files">>

\* C5: complete_clean runs the special-character filter, the length filter,
\* the structural filter and join in this order, each once, each on the
\* collection the stage before it returned; join runs after the three filters.
C5_StageOrder ==
    /\ Len(calls) <= Len(StageOrder)
    /\ \A i \in DOMAIN calls : calls[i].op = StageOrder[i]
    /\ \A i \in DOMAIN calls : i > 1 => calls[i].arg = calls[i - 1].ret
    /\ Len(calls) >= 1 => calls[1].arg = collect_raw_tcrdb_files(dir).repertoire_dict
    /\ Stmt = "return" => Len(calls) = Len(StageOrder)

\* C5 witness: complete_clean returned after a run in which every filter
\* removed a row or had rows to look at, and join wrote a table.
C5_Witness ==
    /\ Stmt = "return"
    /\ Len(calls) = 4
    /\ calls[1].arg # calls[1].ret
    /\ DOMAIN saved # {}

\* Positions of the rows of table whose AASeq satisfies Keep.
KeptRows(table, Keep(_)) == {r \in DOMAIN table : Keep(table[r].AASeq)}

\* out holds exactly the rows of table at the positions in kept, in order.
IsSelection(out, table, kept) ==
    /\ Len(out) = Cardinality(kept)
    /\ \A r \in kept : out[Cardinality({q \in kept : q <= r})] = table[r]

SameIds(arg, ret) ==
    /\ Len(arg) = Len(ret)
    /\ \A i \in DOMAIN arg : ret[i].id = arg[i].id

TrimmedLenInRange(seq) == Len(strip(seq)) >= 10 /\ Len(strip(seq)) <= 24

NoSpecialCharacter(seq) == \A k \in DOMAIN seq : seq[k] \notin {"+", "*", "_"}

\* C7: remove_special_characters keeps a row iff its AASeq holds none of
\* '+', '*', '_'; kept rows are unchanged and the ids are the same.
C7_SpecialCharacterFilter ==
    \A c \in DOMAIN calls :
        calls[c].op = "remove_special_characters" =>
            /\ SameIds(calls[c].arg, calls[c].ret)
            /\ \A i \in DOMAIN calls[c].arg :
                   IsSelection(calls[c].ret[i].table, calls[c].arg[i].table,
                               KeptRows(calls[c].arg[i].table, NoSpecialCharacter))

\* C7 witness: remove_special_characters ran on two repertoires, removing a
\* row with '_' from one and keeping a row of the other.
C7_Witness ==
    \E c \in DOMAIN calls :
        /\ calls[c].op = "remove_special_characters"
        /\ Len(calls[c].arg) = 2
        /\ \E r \in DOMAIN calls[c].arg[1].table :
               \E k \in DOMAIN calls[c].arg[1].table[r].AASeq :
                   calls[c].arg[1].table[r].AASeq[k] = "_"
        /\ calls[c].ret[1].table = <<>>
        /\ Len(calls[c].ret[2].table) = 1

StartsCEndsF(seq) == Len(seq) >= 1 /\ seq[1] = "C" /\ seq[Len(seq)] = "F"

\* C8: remove_incomplete_seqs keeps a row iff its AASeq starts with 'C' and
\* ends with 'F'; one of the two is not enough.
C8_StructuralFilter ==
    \A c \in DOMAIN calls :
        calls[c].op = "remove_incomplete_seqs" =>
            /\ SameIds(calls[c].arg, calls[c].ret)
            /\ \A i \in DOMAIN calls[c].arg :
                   IsSelection(calls[c].ret[i].table, calls[c].arg[i].table,
                               KeptRows(calls[c].arg[i].table, StartsCEndsF))

\* C8 witness: remove_incomplete_seqs removed a row that starts with 'C' but
\* does not end with 'F' and a row that ends with 'F' but does not start
\* with 'C'.
C8_Witness ==
    \E c \in DOMAIN calls :
        /\ calls[c].op = "remove_incomplete_seqs"
        /\ \E i \in DOMAIN calls[c].arg :
               /\ Len(calls[c].arg[i].table) = 2
               /\ calls[c].arg[i].table[1].AASeq[1] = "C"
               /\ ~StartsCEndsF(calls[c].arg[i].table[1].AASeq)
               /\ calls[c].arg[i].table[2].AASeq[1] # "C"
               /\ calls[c].arg[i].table[2].AASeq[Len(calls[c].arg[i].table[2].AASeq)] = "F"
               /\ calls[c].ret[i].table = <<>>

\* C9: assert_size applied to the result of assert_size returns it unchanged.
C9_LengthFilterIdempotent ==
    \A c \in DOMAIN calls :
        (c > 1 /\ calls[c].op = "assert_size" /\ calls[c - 1].op = "assert_size")
            => /\ calls[c].arg = calls[c - 1].ret
               /\ calls[c].ret = calls[c - 1].ret

\* C9 witness: assert_size ran twice in a row, the first run having removed
\* a row and trimmed the AASeq of a row it kept.
C9_Witness ==
    \E c \in DOMAIN calls :
        /\ c > 1 /\ calls[c].op = "assert_size" /\ calls[c - 1].op = "assert_size"
        /\ \E i \in DOMAIN calls[c - 1].arg :
               /\ Len(calls[c - 1].arg[i].table) = 2
               /\ Len(calls[c - 1].ret[i].table) = 1
               /\ calls[c - 1].ret[i].table[1] \notin
                      {calls[c - 1].arg[i].table[r] : r \in DOMAIN calls[c - 1].arg[i].table}

(***************************************************************************)
(* ExploratoryAnalyzer (src/eda.py).  A float is kept as the exact         *)
(* fraction [num, den] the code divides out; a division of numpy numbers   *)
(* by zero gives inf or nan and is kept as a fraction with den = 0.  A     *)
(* pd.Series of proportions is a function from value to fraction; a result *)
(* dict is a function from key to value.                                   *)
(***************************************************************************)
NaN == "nan"

Ids(data) == {data[i].id : i \in DOMAIN data}

TableOf(data, id) == data[CHOOSE i \in DOMAIN data : data[i].id = id].table

Column(table, name) == [r \in DOMAIN table |-> table[r][name]]

\* A count that keeps the missing values.
keepna(values) == values

dropna(values) == SelectSeq(values, LAMBDA v : v # NaN)

\* A dict whose tables lost the rows with a missing D region.
data_after_dropna(data) ==
    [i \in DOMAIN data |->
        [id |-> data[i].id,
         table |-> SelectSeq(data[i].table, LAMBDA row : row.Dregion # NaN)]]

\* The dict given to a metric operation or to sub_sample_repertoire, as the
\* call leaves it: the call indexes the tables and applies methods that return
\* new objects (len, str.len, value_counts, set, str.split, sample); it
\* assigns to no key and to no column.
data_after_read(data) == data

\* pd.Series.value_counts(normalize=True) of values none of which is missing
value_counts(values) ==
    [v \in {values[i] : i \in DOMAIN values} |->
        [num |-> Cardinality({i \in DOMAIN values : values[i] = v}), den |-> Len(values)]]

str_len(table) == [r \in DOMAIN table |-> Len(table[r].AASeq)]

RECURSIVE Sum(_)
Sum(values) == IF values = <<>> THEN 0 ELSE Head(values) + Sum(Tail(values))

\* The dict `attribute` after attribute[id] = F(table) for every repertoire
\* at the positions 1..n of data.
Assigned(attribute, data, n, F(_)) ==
    LET done == {data[i].id : i \in 1..n}
    IN  [id \in DOMAIN attribute \cup done |->
            IF id \in done THEN F(TableOf(data, id)) ELSE attribute[id]]

count_sequences_per_disease(counts, data) ==
    Assigned(counts, data, Len(data), Len)

LenCounts(table) == [len_counts |-> value_counts(str_len(table))]

\* The first repertoire of data that has no entry in counts (0 if none).
FirstMissing(counts, data) ==
    IF \A i \in DOMAIN data : data[i].id \in DOMAIN counts THEN 0
    ELSE CHOOSE i \in DOMAIN data :
             /\ data[i].id \notin DOMAIN counts
             /\ \A j \in 1..(i - 1) : data[j].id \in DOMAIN counts

\* mean_len and standard_dev (as its square) of the lengths, over a total
\* number of sequences that is read from sequence_counts.
LengthStats(counts, data) ==
    LET len_array == concat([i \in DOMAIN data |-> str_len(data[i].table)])
        total_seq_lens == Sum(len_array)
        total_num_of_seqs == Sum([i \in DOMAIN data |-> counts[data[i].id]])
        squares == [k \in DOMAIN len_array |->
                       (len_array[k] * total_num_of_seqs - total_seq_lens)
                           * (len_array[k] * total_num_of_seqs - total_seq_lens)]
    IN  [mean_len |-> [num |-> total_seq_lens, den |-> total_num_of_seqs],
         standard_dev_squared |->
             IF total_num_of_seqs = 0
             THEN [num |-> IF total_seq_lens = 0 THEN 0 ELSE 1, den |-> 0]
             ELSE [num |-> Sum(squares),
                   den |-> total_num_of_seqs * total_num_of_seqs * total_num_of_seqs]]

\* seq_len_metrics is [reps: id -> len_counts entry, stats: the entries
\* 'mean_len' and 'standard_dev'].
count_sequence_length_metrics(metrics, counts, data) ==
    LET missing == FirstMissing(counts, data)
    IN  IF missing # 0
        THEN [raised |-> "KeyError",
              metrics |-> [metrics EXCEPT !.reps = Assigned(@, data, missing, LenCounts)]]
        ELSE IF Len(data) = 0
        THEN [raised |-> "ZeroDivisionError", metrics |-> metrics]
        ELSE [raised |-> "none",
              metrics |-> [reps |-> Assigned(metrics.reps, data, Len(data), LenCounts),
                           stats |-> LengthStats(counts, data)]]

gene_regions == <<"Vregion", "Jregion", "Dregion">>

count_gene_usage(data) ==
    [gene \in {gene_regions[k] : k \in DOMAIN gene_regions} |->
        [id \in Ids(data) |-> value_counts(dropna(Column(TableOf(data, id), gene)))]]

SeqSet(table) == {table[r].AASeq : r \in DOMAIN table}

\* Scores that count rows instead of unique sequences.
JaccardScoresOverRows(data, a) ==
    [id \in Ids(data) \ {data[a].id} |->
        LET A == data[a].table
            B == TableOf(data, id)
        IN  [num |-> Cardinality({r \in DOMAIN A : A[r].AASeq \in SeqSet(B)}),
             den |-> Len(A) + Cardinality({r \in DOMAIN B : B[r].AASeq \notin SeqSet(A)})]]

\* Scores that also compare repertoire_A to itself.
JaccardScoresWithSelf(data, a) ==
    [id \in Ids(data) |->
        [num |-> Cardinality(SeqSet(data[a].table) \cap SeqSet(TableOf(data, id))),
         den |-> Cardinality(SeqSet(data[a].table) \cup SeqSet(TableOf(data, id)))]]

\* The scores of repertoire_A against every other repertoire of data.
JaccardScores(data, a) ==
    [id \in Ids(data) \ {data[a].id} |->
        [num |-> Cardinality(SeqSet(data[a].table) \cap SeqSet(TableOf(data, id))),
         den |-> Cardinality(SeqSet(data[a].table) \cup SeqSet(TableOf(data, id)))]]

\* The first repertoire_A whose inner loop divides by an empty union (0 if none).
FirstEmptyUnion(data) ==
    LET bad == {a \in DOMAIN data : \E id \in DOMAIN JaccardScores(data, a) :
                                        JaccardScores(data, a)[id].den = 0}
    IN  IF bad = {} THEN 0 ELSE CHOOSE a \in bad : \A b \in bad : a <= b

compute_jaccard_index(jaccard, data) ==
    LET failing == FirstEmptyUnion(data)
        n == IF failing = 0 THEN Len(data) ELSE failing - 1
        done == {data[i].id : i \in 1..n}
        pos(id) == CHOOSE i \in DOMAIN data : data[i].id = id
    IN  [raised |-> IF failing = 0 THEN "none" ELSE "ZeroDivisionError",
         jaccard |-> [id \in DOMAIN jaccard \cup done |->
                         IF id \in done THEN JaccardScores(data, pos(id)) ELSE jaccard[id]]]

\* Series.str.split('') on one value: the pattern is compiled as a regex,
\* and the empty regex splits before, between and after the characters.
str_split(seq) == <<"">> \o seq \o <<"">>

\* Number of columns of str.split('', expand=True): the longest list.
Width(table) ==
    IF table = <<>> THEN 0
    ELSE CHOOSE w \in {Len(str_split(table[r].AASeq)) : r \in DOMAIN table} :
             \A r \in DOMAIN table : Len(str_split(table[r].AASeq)) <= w

\* expand=True: one column per list position, labelled from 0, shorter
\* lists padded with None.
expand(table) ==
    [r \in DOMAIN table |->
        [c \in 0..(Width(table) - 1) |->
            IF c + 1 <= Len(str_split(table[r].AASeq))
            THEN str_split(table[r].AASeq)[c + 1] ELSE NaN]]

\* .iloc[:, 1:-1]: the column labels left without the first and the last.
iloc(table) == 1..(Width(table) - 2)

\* A frame that keeps its empty strings.
keep_empty(value) == value

\* .replace({'': None}) on one value
replace(value) == IF value = "" THEN NaN ELSE value

\* aa_breakdown[position].value_counts(normalize=True) for every column
AaBreakdown(table) ==
    [position \in iloc(table) |->
        value_counts(dropna([r \in DOMAIN table |-> replace(expand(table)[r][position])]))]

count_aa_occurrences(aa, data) == Assigned(aa, data, Len(data), AaBreakdown)

(***************************************************************************)
(* Metric calls on an analyzer, in any order, on either of two dicts.      *)
(***************************************************************************)
Row4(seq, v, d, j) == [AASeq |-> seq, Vregion |-> v, Dregion |-> d, Jregion |-> j]

Liver == supported_disease_types[4]

\* Ids of cleaned files: the disease labels.
EdaNames == <<Breast, Lung>>

EdaRows ==
    { Row4(CDR3(10), "TRBV1", "TRBD1", "TRBJ1-1"),
      Row4(CDR3(12), "TRBV2", NaN, "TRBJ1-1"),
      Row4(<<"C", "A", "S", "S">> \o Rep("L", 5) \o <<"F">>, "TRBV1", "TRBD2", "TRBJ2-1") }

\* Dicts an analyzer may have been given before: a repertoire id also used
\* now, and one that is not.
EarlierDicts ==
    { << [id |-> Breast, table |-> << Row4(CDR3(14), "TRBV3", "TRBD1", "TRBJ1-2") >>] >>,
      << [id |-> Liver, table |-> << Row4(CDR3(10), "TRBV1", "TRBD1", "TRBJ1-1"),
                                     Row4(CDR3(10), "TRBV1", "TRBD1", "TRBJ1-1") >>] >> }

\* A collection of cleaned files of unequal sizes: a sequence repeated inside
\* breast and shared with lung, sequences of different lengths, a missing D.
EdaFixtures ==
    { << [id |-> Breast, table |-> << Row4(CDR3(10), "TRBV1", "TRBD1", "TRBJ1-1"),
                                      Row4(CDR3(10), "TRBV2", NaN, "TRBJ1-1"),
                                      Row4(CDR3(12), "TRBV1", "TRBD1", "TRBJ2-1") >>],
         [id |-> Lung, table |-> << Row4(CDR3(10), "TRBV1", NaN, "TRBJ1-1") >>] >> }

EmptyMetrics == [reps |-> EmptyMap, stats |-> EmptyMap]

InitEda ==
    /\ \/ \E n \in 0..Len(EdaNames) :
              dataset \in Dicts(SubSeq(EdaNames, 1, n), EdaRows, MaxEdaRows)
       \/ dataset \in EdaFixtures
    /\ other_data \in EarlierDicts
    /\ dir = <<>>
    /\ pc = 0
    /\ err = "none"
    /\ saved = EmptyMap
    /\ calls = <<>>
    /\ AnalyzerInit
    /\ NoPreprocessor

EdaCall(op, data, raised) ==
    /\ Len(eda_calls) < MaxEdaCalls
    /\ eda_calls' = Append(eda_calls, [op |-> op, data |-> data, raised |-> raised])
    /\ dataset' = IF data = dataset THEN data_after_read(data) ELSE dataset
    /\ other_data' = IF data = dataset THEN other_data ELSE data_after_read(data)
    /\ UNCHANGED <<dir, pc, err, saved, calls>>
    /\ UNCHANGED kmerVars

CountSequencesPerDisease ==
    \E data \in {dataset, other_data} :
        /\ sequence_counts' = count_sequences_per_disease(sequence_counts, data)
        /\ EdaCall("count_sequences_per_disease", data, "none")
        /\ UNCHANGED <<seq_len_metrics, gene_usage, jaccard_index, aa_counts>>

CountSequenceLengthMetrics ==
    \E data \in {dataset, other_data} :
        LET r == count_sequence_length_metrics(seq_len_metrics, sequence_counts, data)
        IN  /\ seq_len_metrics' = r.metrics
            /\ EdaCall("count_sequence_length_metrics", data, r.raised)
            /\ UNCHANGED <<sequence_counts, gene_usage, jaccard_index, aa_counts>>

CountGeneUsage ==
    \E data \in {dataset, other_data} :
        /\ gene_usage' = count_gene_usage(data)
        /\ EdaCall("count_gene_usage", data, "none")
        /\ UNCHANGED <<sequence_counts, seq_len_metrics, jaccard_index, aa_counts>>

ComputeJaccardIndex ==
    \E data \in {dataset, other_data} :
        LET r == compute_jaccard_index(jaccard_index, data)
        IN  /\ jaccard_index' = r.jaccard
            /\ EdaCall("compute_jaccard_index", data, r.raised)
            /\ UNCHANGED <<sequence_counts, seq_len_metrics, gene_usage, aa_counts>>

CountAaOccurrences ==
    \E data \in {dataset, other_data} :
        /\ aa_counts' = count_aa_occurrences(aa_counts, data)
        /\ EdaCall("count_aa_occurrences", data, "none")
        /\ UNCHANGED <<sequence_counts, seq_len_metrics, gene_usage, jaccard_index>>

NextEda ==
    \/ CountSequencesPerDisease
    \/ CountSequenceLengthMetrics
    \/ CountGeneUsage
    \/ ComputeJaccardIndex
    \/ CountAaOccurrences

SpecEda == InitEda /\ [][NextEda]_vars

(***************************************************************************)
(* Properties of the Statistics Engine.                                    *)
(***************************************************************************)
LastCall == eda_calls[Len(eda_calls)]

\* What count_sequence_length_metrics stores for data when the number of
\* sequences is that of data itself.
LengthMetricsOf(data) ==
    count_sequence_length_metrics(EmptyMetrics,
                                  count_sequences_per_disease(EmptyMap, data), data).metrics

\* C10: every metric is a function of the collection of its call alone: no
\* call fails for want of an earlier call, and what the call stored is what
\* the same call stores on a fresh analyzer.
C10_MetricsArePure ==
    eda_calls # <<>> =>
        /\ LastCall.raised # "KeyError"
        /\ LastCall.op = "count_sequences_per_disease"
               => sequence_counts = count_sequences_per_disease(EmptyMap, LastCall.data)
        /\ (LastCall.op = "count_sequence_length_metrics" /\ LastCall.raised = "none")
               => seq_len_metrics = LengthMetricsOf(LastCall.data)
        /\ LastCall.op = "count_gene_usage"
               => gene_usage = count_gene_usage(LastCall.data)
        /\ LastCall.op = "compute_jaccard_index"
               => jaccard_index = compute_jaccard_index(EmptyMap, LastCall.data).jaccard
        /\ LastCall.op = "count_aa_occurrences"
               => aa_counts = count_aa_occurrences(EmptyMap, LastCall.data)

\* The lengths of every individual sequence of the collection, pooled.
PooledLengths(data) == concat([i \in DOMAIN data |-> str_len(data[i].table)])

LengthMetricsReturned ==
    /\ eda_calls # <<>>
    /\ LastCall.op = "count_sequence_length_metrics"
    /\ LastCall.raised = "none"

\* C11: mean_len and standard_dev are those of the pooled multiset of the
\* lengths of all sequences of the collection (at least one sequence):
\* mean_len * N = sum of the lengths and standard_dev^2 * N = sum over the
\* sequences of (length - mean_len)^2, N being the number of sequences.
C11_PooledLengthStats ==
    (LengthMetricsReturned /\ PooledLengths(LastCall.data) # <<>>) =>
        LET lens == PooledLengths(LastCall.data)
            N == Len(lens)
            m == seq_len_metrics.stats.mean_len
            v == seq_len_metrics.stats.standard_dev_squared
            deviations == [k \in DOMAIN lens |->
                              (lens[k] * m.den - m.num) * (lens[k] * m.den - m.num)]
        IN  /\ m.den # 0
            /\ m.num * N = Sum(lens) * m.den
            /\ v.den # 0
            /\ v.num * N * m.den * m.den = v.den * Sum(deviations)

JaccardReturned ==
    /\ eda_calls # <<>>
    /\ LastCall.op = "compute_jaccard_index"
    /\ LastCall.raised = "none"

\* The de-duplicated AASeq values of a table.
UniqueSeqs(table) == {table[r].AASeq : r \in DOMAIN table}

\* Fractions compared as the numbers they stand for.
SameValue(x, y) == x.den # 0 /\ y.den # 0 /\ x.num * y.den = y.num * x.den

\* C12: after compute_jaccard_index, for every ordered pair of distinct
\* repertoires (A, B) of the collection jaccard_index[A][B] is
\* |SA n SB| / |SA u SB| over the de-duplicated AASeq sets, and it equals
\* jaccard_index[B][A].
C12_JaccardOfUniqueSets ==
    JaccardReturned =>
        \A a, b \in DOMAIN LastCall.data :
            a # b =>
                LET A == LastCall.data[a]
                    B == LastCall.data[b]
                    SA == UniqueSeqs(A.table)
                    SB == UniqueSeqs(B.table)
                IN  /\ A.id \in DOMAIN jaccard_index
                    /\ B.id \in DOMAIN jaccard_index[A.id]
                    /\ SameValue(jaccard_index[A.id][B.id],
                                 [num |-> Cardinality(SA \cap SB), den |-> Cardinality(SA \cup SB)])
                    /\ SameValue(jaccard_index[A.id][B.id], jaccard_index[B.id][A.id])

\* C12 witness: compute_jaccard_index returned on two repertoires that share
\* a sequence, one of them holding a sequence more than once and a sequence
\* the other has not, so the score is strictly between 0 and 1.
C12_Witness ==
    /\ JaccardReturned
    /\ \E a, b \in DOMAIN LastCall.data :
           LET A == LastCall.data[a]
               B == LastCall.data[b]
           IN  /\ a # b
               /\ Cardinality(UniqueSeqs(A.table)) < Len(A.table)
               /\ UniqueSeqs(A.table) \cap UniqueSeqs(B.table) # {}
               /\ jaccard_index[A.id][B.id].num > 0
               /\ jaccard_index[A.id][B.id].num < jaccard_index[A.id][B.id].den

\* C13: after compute_jaccard_index on n repertoires every repertoire A has
\* an entry whose keys are exactly the n-1 other repertoire ids, no entry
\* has its own id as a key, and every stored value v has 0 <= v <= 1.
C13_JaccardShapeAndBounds ==
    JaccardReturned =>
        /\ \A A \in Ids(LastCall.data) :
               /\ A \in DOMAIN jaccard_index
               /\ DOMAIN jaccard_index[A] = Ids(LastCall.data) \ {A}
               /\ Cardinality(DOMAIN jaccard_index[A]) = Len(LastCall.data) - 1
        /\ \A A \in DOMAIN jaccard_index :
               /\ A \notin DOMAIN jaccard_index[A]
               /\ \A B \in DOMAIN jaccard_index[A] :
                      LET v == jaccard_index[A][B]
                      IN  v.den > 0 /\ 0 <= v.num /\ v.num <= v.den

\* C13 witness: compute_jaccard_index returned on two repertoires and stored
\* one score in each entry.
C13_Witness ==
    /\ JaccardReturned
    /\ Len(LastCall.data) = 2
    /\ \A A \in Ids(LastCall.data) : Cardinality(DOMAIN jaccard_index[A]) = 1

RECURSIVE Total(_, _)
\* The sum of the proportions of distribution d over the values in S, as a fraction.
Total(d, S) ==
    IF S = {} THEN [num |-> 0, den |-> 1]
    ELSE LET v == CHOOSE v \in S : TRUE
             rest == Total(d, S \ {v})
         IN  [num |-> d[v].num * rest.den + rest.num * d[v].den, den |-> d[v].den * rest.den]

SumsToOne(d) == Total(d, DOMAIN d).den # 0 /\ Total(d, DOMAIN d).num = Total(d, DOMAIN d).den

\* Every distribution the analyzer holds (length histograms, gene usage of
\* each region, amino acids of each position) sums to 1; allowEmpty lets a
\* distribution without any value through.
AllNormalized(allowEmpty) ==
    LET ok(d) == (allowEmpty /\ DOMAIN d = {}) \/ SumsToOne(d)
    IN  /\ \A id \in DOMAIN seq_len_metrics.reps : ok(seq_len_metrics.reps[id].len_counts)
        /\ \A gene \in DOMAIN gene_usage :
               \A id \in DOMAIN gene_usage[gene] : ok(gene_usage[gene][id])
        /\ \A id \in DOMAIN aa_counts :
               \A pos \in DOMAIN aa_counts[id] : ok(aa_counts[id][pos])

\* d holds, for each value of the rows in present, the number of those rows
\* with that value over the number of rows in present.
ProportionsOf(d, values, present) ==
    /\ DOMAIN d = {values[r] : r \in present}
    /\ \A v \in DOMAIN d :
           SameValue(d[v], [num |-> Cardinality({r \in present : values[r] = v}),
                            den |-> Cardinality(present)])

ProportionsAreCounts ==
    /\ LengthMetricsReturned =>
           \A i \in DOMAIN LastCall.data :
               LET table == LastCall.data[i].table
               IN  ProportionsOf(seq_len_metrics.reps[LastCall.data[i].id].len_counts,
                                 [r \in DOMAIN table |-> Len(table[r].AASeq)],
                                 DOMAIN table)
    /\ (eda_calls # <<>> /\ LastCall.op = "count_gene_usage") =>
           \A gene \in {"Vregion", "Dregion", "Jregion"} :
               /\ gene \in DOMAIN gene_usage
               /\ \A i \in DOMAIN LastCall.data :
                      LET table == LastCall.data[i].table
                      IN  ProportionsOf(gene_usage[gene][LastCall.data[i].id],
                                        [r \in DOMAIN table |-> table[r][gene]],
                                        {r \in DOMAIN table : table[r][gene] # NaN})

\* C14 as stated: every distribution of the Statistics Engine sums to 1 over
\* its non-missing support, each proportion being a count over the number of
\* rows with a value.
C14_EveryDistributionSumsToOne ==
    /\ AllNormalized(FALSE)
    /\ ProportionsAreCounts

\* C14 amended: every distribution with at least one non-missing value sums
\* to 1, each proportion being a count over the number of rows with a value;
\* a repertoire without rows, or a gene column without any value, gives an
\* empty distribution.
C14_NonEmptyDistributionSumsToOne ==
    /\ AllNormalized(TRUE)
    /\ ProportionsAreCounts

\* C14 witness: count_gene_usage ran on a repertoire whose D region is
\* missing in one row and present in another, and the analyzer also holds
\* a length histogram and an amino-acid distribution.
C14_Witness ==
    /\ eda_calls # <<>> /\ LastCall.op = "count_gene_usage"
    /\ \E i \in DOMAIN LastCall.data :
           LET D == Column(LastCall.data[i].table, "Dregion")
           IN  /\ \E r \in DOMAIN D : D[r] = NaN
               /\ \E r \in DOMAIN D : D[r] # NaN
               /\ gene_usage["Dregion"][LastCall.data[i].id] # <<>>
    /\ \/ \E id \in DOMAIN aa_counts : aa_counts[id] # <<>>
       \/ \E id \in DOMAIN seq_len_metrics.reps :
              DOMAIN seq_len_metrics.reps[id].len_counts # {}

\* C15: after count_aa_occurrences, aa_counts[r] has exactly the keys 1..M,
\* M the length of the longest AASeq of r, and the distribution at position
\* p is that of the residues at p of the sequences of length at least p:
\* each proportion is the number of those sequences with the residue at p
\* over the number of those sequences.
C15_PositionalComposition ==
    (eda_calls # <<>> /\ LastCall.op = "count_aa_occurrences") =>
        \A i \in DOMAIN LastCall.data :
            LET table == LastCall.data[i].table
                counts == aa_counts[LastCall.data[i].id]
                lengths == {Len(table[r].AASeq) : r \in DOMAIN table}
            IN  /\ \A M \in lengths : (\A l \in lengths : l <= M) => DOMAIN counts = 1..M
                /\ lengths = {} => DOMAIN counts = {}
                /\ \A p \in DOMAIN counts :
                       LET long == {r \in DOMAIN table : Len(table[r].AASeq) >= p}
                       IN  ProportionsOf(counts[p],
                                         [r \in long |-> table[r].AASeq[p]], long)

\* C15 witness: count_aa_occurrences ran on a repertoire with sequences of
\* different lengths, so a position past the shorter one holds the residue
\* of the longer one alone, with proportion 1.
C15_Witness ==
    /\ eda_calls # <<>> /\ LastCall.op = "count_aa_occurrences"
    /\ \E i \in DOMAIN LastCall.data :
           LET table == LastCall.data[i].table
               counts == aa_counts[LastCall.data[i].id]
           IN  \E r, q \in DOMAIN table :
                   /\ Len(table[r].AASeq) < Len(table[q].AASeq)
                   /\ DOMAIN counts = 1..Len(table[q].AASeq)
                   /\ counts[Len(table[q].AASeq)] =
                          (table[q].AASeq[Len(table[q].AASeq)] :> [num |-> 1, den |-> 1])

(***************************************************************************)
(* KmerPreprocessor (src/preprocessing.py).  A python dict is a sequence   *)
(* of [key, val] records in insertion order; the subsamples dict is a      *)
(* sequence of [id, samples] records.                                      *)
(***************************************************************************)
\* 'ARNDCEQGHILKMFPSTWYV'
alphabet ==
    <<"A", "R", "N", "D", "C", "E", "Q", "G", "H", "I",
      "L", "K", "M", "F", "P", "S", "T", "W", "Y", "V">>

RECURSIVE product(_, _)
\* itertools.product(symbols, repeat=repeat): the last position varies fastest.
product(symbols, repeat) ==
    IF repeat <= 0 THEN << <<>> >>
    ELSE LET shorter == product(symbols, repeat - 1)
         IN  [i \in 1..(Len(shorter) * Len(symbols)) |->
                 Append(shorter[((i - 1) \div Len(symbols)) + 1],
                        symbols[((i - 1) % Len(symbols)) + 1])]

\* {''.join(kmer): 0 for kmer in product(alphabet, repeat=kmer_size)}
KmerCounter(size) ==
    LET kmer == product(alphabet, size)
    IN  [i \in DOMAIN kmer |-> [key |-> kmer[i], val |-> 0]]

\* Position of key in dict d, 0 if d has no such key.
KeyIndex(d, key) ==
    IF \E i \in DOMAIN d : d[i].key = key
    THEN CHOOSE i \in DOMAIN d : d[i].key = key
    ELSE 0

Keys(d) == [i \in DOMAIN d |-> d[i].key]

\* d[key] = val
SetItem(d, key, val) ==
    IF KeyIndex(d, key) # 0
    THEN [d EXCEPT ![KeyIndex(d, key)].val = val]
    ELSE Append(d, [key |-> key, val |-> val])

\* os.path.splitext(name)[0]: the name up to its last dot, a leading dot kept.
splitext(name) ==
    LET dots == {i \in DOMAIN name : name[i] = "." /\ \E j \in 1..(i - 1) : name[j] # "."}
    IN  IF dots = {} THEN name
        ELSE SubSeq(name, 1, (CHOOSE i \in dots : \A j \in dots : j <= i) - 1)

RECURSIVE collect_csv_files(_)
\* {splitext(file.name)[0]: read_csv(file) for file in iterdir()}
collect_csv_files(directory) ==
    IF directory = <<>> THEN <<>>
    ELSE LET file == directory[Len(directory)]
             earlier == collect_csv_files(SubSeq(directory, 1, Len(directory) - 1))
             stem == splitext(file.id)
             at == IF \E i \in DOMAIN earlier : earlier[i].id = stem
                   THEN CHOOSE i \in DOMAIN earlier : earlier[i].id = stem ELSE 0
         IN  IF at # 0 THEN [earlier EXCEPT ![at].table = file.table]
             ELSE Append(earlier, [id |-> stem, table |-> file.table])

\* Series.sample(subsample_size, replace=True).to_list(): any choice of values.
Draws(table, size) == [1..size -> {table[r].AASeq : r \in DOMAIN table}]

RECURSIVE SubsampleDicts(_, _, _)
\* Every repertoire_subsamples dict the list comprehension can build.
SubsampleDicts(data, n, size) ==
    IF data = <<>> THEN {<<>>}
    ELSE {<<[id |-> Head(data).id, samples |-> s]>> \o rest :
              s \in [1..n -> Draws(Head(data).table, size)],
              rest \in SubsampleDicts(Tail(data), n, size)}

\* The outcomes of sub_sample_repertoire.  Sampling from a table without rows
\* raises ValueError unless no value is asked for; the f-string of the second
\* debug line indexes the first subsample, which raises IndexError when there
\* is none.
sub_sample_repertoire(data, n, size) ==
    IF data = <<>> THEN {[raised |-> "none", ret |-> <<>>]}
    ELSE IF n = 0 THEN {[raised |-> "IndexError", ret |-> <<>>]}
    ELSE IF size > 0 /\ \E i \in DOMAIN data : data[i].table = <<>>
    THEN {[raised |-> "ValueError", ret |-> <<>>]}
    ELSE {[raised |-> "none", ret |-> d] : d \in SubsampleDicts(data, n, size)}

\* Code points in ascending order, for the comparison of strings.
CodePoints ==
    <<".", "0", "1", "2", "3", "4", "5", "6", "7", "8", "9",
      "A", "B", "C", "D", "E", "F", "G", "H", "I", "J", "K", "L", "M",
      "N", "O", "P", "Q", "R", "S", "T", "U", "V", "W", "X", "Y", "Z", "_",
      "a", "b", "c", "d", "e", "f", "g", "h", "i", "j", "k", "l", "m",
      "n", "o", "p", "q", "r", "s", "t", "u", "v", "w", "x", "y", "z">>

ord(c) == CHOOSE i \in DOMAIN CodePoints : CodePoints[i] = c

RECURSIVE StrLess(_, _)
\* python a < b on strings
StrLess(a, b) ==
    IF b = <<>> THEN FALSE
    ELSE IF a = <<>> THEN TRUE
    ELSE IF Head(a) # Head(b) THEN ord(Head(a)) < ord(Head(b))
    ELSE StrLess(Tail(a), Tail(b))

\* Targets numbered in the order of the keys.
EnumerateKeys(keys) == [i \in DOMAIN keys |-> [key |-> keys[i], val |-> i - 1]]

RECURSIVE sorted(_)
\* sorted(...) of a set of distinct strings
sorted(S) ==
    IF S = {} THEN <<>>
    ELSE LET least == CHOOSE x \in S : \A y \in S \ {x} : StrLess(x, y)
         IN  <<least>> \o sorted(S \ {least})

\* Targets in the insertion order of the dict.
create_targets_unsorted(data) == EnumerateKeys([i \in DOMAIN data |-> data[i].id])

\* {disease: value for value, disease in enumerate(sorted(data.keys()))}
create_targets(data) == EnumerateKeys(sorted({data[i].id : i \in DOMAIN data}))

\* Windows that do not overlap.
ngrams_disjoint(sequence, n) ==
    [i \in 1..(Len(sequence) \div n) |-> SubSeq(sequence, (i - 1) * n + 1, i * n)]

\* nltk.ngrams(sequence, n): the windows of n consecutive items; zip over the
\* n shifted copies of the sequence, which for n = 0 yields nothing.
ngrams(sequence, n) ==
    IF n = 0 THEN <<>>
    ELSE [i \in 1..(Len(sequence) - n + 1) |-> SubSeq(sequence, i, i + n - 1)]

\* The widths of the windows nltk.ngrams yields when asked for kmer_size: for
\* 0 none with the zip implementation, and the 1-grams with the releases
\* that build each window from a history list.
NgramWidths(size) == IF size = 0 THEN {0, 1} ELSE {size}

RECURSIVE CountLoopAddingKeys(_, _)
\* A counter that makes room for a k-mer it has not.
CountLoopAddingKeys(kmer_vals, windows) ==
    IF windows = <<>> THEN [raised |-> "none", kmer_vals |-> kmer_vals]
    ELSE LET at == KeyIndex(kmer_vals, Head(windows))
         IN  IF at = 0
             THEN CountLoopAddingKeys(Append(kmer_vals, [key |-> Head(windows), val |-> 1]), Tail(windows))
             ELSE CountLoopAddingKeys([kmer_vals EXCEPT ![at].val = @ + 1], Tail(windows))

RECURSIVE CountLoop(_, _)
\* kmer_vals[''.join(kmer)] += 1 for each window; a key the dict has not is a KeyError.
CountLoop(kmer_vals, windows) ==
    IF windows = <<>> THEN [raised |-> "none", kmer_vals |-> kmer_vals]
    ELSE LET at == KeyIndex(kmer_vals, Head(windows))
         IN  IF at = 0 THEN [raised |-> "KeyError", kmer_vals |-> kmer_vals]
             ELSE CountLoop([kmer_vals EXCEPT ![at].val = @ + 1], Tail(windows))

\* A kmer_vals that is the template itself: what is written to it is written
\* to the template.
TemplateAliased(template, kmer_vals) == kmer_vals

\* self.base_kmer_counter after the writes to kmer_vals: kmer_vals is
\* base_kmer_counter.copy(), a new dict, so the template keeps its entries.
TemplateAfterWrite(template, kmer_vals) == template

\* count_kmers: what it returns or raises, and the template it leaves.
count_kmers(base, sequences, size) ==
    LET counted == CountLoop(base, concat([i \in DOMAIN sequences |-> ngrams(sequences[i], size)]))
    IN  [raised |-> counted.raised,
         kmer_vals |-> counted.kmer_vals,
         base |-> TemplateAfterWrite(base, counted.kmer_vals)]

target == <<"t", "a", "r", "g", "e", "t">>

\* The (repertoire, subsample) pairs in the order of the two loops.
SubsampleList(repertoire_subsamples) ==
    concat([i \in DOMAIN repertoire_subsamples |->
               [j \in DOMAIN repertoire_subsamples[i].samples |->
                   [id |-> repertoire_subsamples[i].id,
                    subsample |-> repertoire_subsamples[i].samples[j]]]])

\* Every row given the first target.
RowTargetOfFirst(target_vals, repertoire) == target_vals[1].val

\* The target stored in a feature row.
RowTarget(target_vals, repertoire) == target_vals[KeyIndex(target_vals, repertoire)].val

RECURSIVE KmerListLoop(_, _, _, _, _)
\* The two loops of collect_subsample_kmers from the pair Head(todo) on, base
\* being the template as the pairs before left it.
KmerListLoop(kmer_list, todo, target_vals, base, size) ==
    IF todo = <<>> THEN [raised |-> "none", kmer_list |-> kmer_list, base |-> base]
    ELSE LET counted == count_kmers(base, Head(todo).subsample, size)
             subsample_kmers ==
                 SetItem(counted.kmer_vals, target, RowTarget(target_vals, Head(todo).id))
         IN  IF counted.raised # "none"
             THEN [raised |-> counted.raised, kmer_list |-> kmer_list, base |-> counted.base]
             ELSE KmerListLoop(Append(kmer_list, subsample_kmers), Tail(todo), target_vals,
                               TemplateAfterWrite(counted.base, subsample_kmers), size)

collect_subsample_kmers(repertoire_subsamples, base, size) ==
    KmerListLoop(<<>>, SubsampleList(repertoire_subsamples),
                 create_targets(repertoire_subsamples), base, size)

RECURSIVE Columns(_)
\* pd.DataFrame(list of dicts): the keys in the order they are first met.
Columns(kmer_list) ==
    IF kmer_list = <<>> THEN <<>>
    ELSE LET before == Columns(SubSeq(kmer_list, 1, Len(kmer_list) - 1))
             seen == {before[i] : i \in DOMAIN before}
         IN  before \o SelectSeq(Keys(kmer_list[Len(kmer_list)]), LAMBDA key : key \notin seen)

\* pd.DataFrame(kmer_list): one row per dict, a key a dict has not is NaN.
construct_kmer_df(kmer_list) ==
    LET columns == Columns(kmer_list)
    IN  [columns |-> columns,
         rows |-> [r \in DOMAIN kmer_list |->
                      IF Keys(kmer_list[r]) = columns
                      THEN [c \in DOMAIN columns |-> kmer_list[r][c].val]
                      ELSE [c \in DOMAIN columns |->
                               IF KeyIndex(kmer_list[r], columns[c]) = 0 THEN NaN
                               ELSE kmer_list[r][KeyIndex(kmer_list[r], columns[c])].val]]]

complete_preprocess ==
    <<"collect_repertoires", "sub_sample_repertoire", "collect_subsample_kmers",
      "construct_kmer_df", "save_data", "return">>

KmerStmt == IF kmer_pc = 0 THEN "idle" ELSE complete_preprocess[kmer_pc]

(***************************************************************************)
(* complete_preprocess on a directory of cleaned files.                    *)
(***************************************************************************)
MaxKmerRows == 2

Csv == <<".", "c", "s", "v">>

CsvNames == {Breast \o Csv, Lung \o Csv}

\* The sequence of the unit test, one shorter than 2, and one with a letter
\* outside the 20.
KmerRows ==
    { Row(<<"C", "A", "S", "S", "L", "G", "G", "D", "F", "D", "T", "E", "A", "F", "F">>, "TRBV1"),
      Row(<<"C">>, "TRBV1"),
      Row(<<"C", "A", "X", "F">>, "TRBV1") }

SubsampleSizes == {0, 1, 2}

SampleCounts == {0, 1, 2}

KmerSizes == {1, 2}

InitKmer ==
    /\ \E names \in NameSeqs(CsvNames, Cardinality(CsvNames)) :
           dir \in Dicts(names, KmerRows, MaxKmerRows)
    /\ dataset = <<>>
    /\ pc = 0
    /\ err = "none"
    /\ saved = EmptyMap
    /\ calls = <<>>
    /\ other_data = <<>>
    /\ AnalyzerInit
    /\ subsample_size \in SubsampleSizes
    /\ num_of_samples \in SampleCounts
    /\ kmer_size \in KmerSizes
    /\ base_kmer_counter = KmerCounter(kmer_size)
    /\ subsamples = <<>>
    /\ kmers = <<>>
    /\ kmer_df = [columns |-> <<>>, rows |-> <<>>]
    /\ kmer_pc = 1
    /\ kmer_err = "none"
    /\ kmer_saved = <<>>

KmerStep(stmt) ==
    /\ kmer_err = "none"
    /\ KmerStmt = stmt
    /\ UNCHANGED <<dir, pc, err, saved, calls>>
    /\ UNCHANGED edaVars
    /\ UNCHANGED <<subsample_size, num_of_samples, kmer_size>>

CollectRepertoires ==
    /\ KmerStep("collect_repertoires")
    /\ dataset' = collect_csv_files(dir)
    /\ kmer_pc' = kmer_pc + 1
    /\ UNCHANGED <<base_kmer_counter, subsamples, kmers, kmer_df, kmer_err, kmer_saved>>

SubSampleRepertoire ==
    /\ KmerStep("sub_sample_repertoire")
    /\ \E r \in sub_sample_repertoire(dataset, num_of_samples, subsample_size) :
           /\ subsamples' = r.ret
           /\ kmer_err' = r.raised
           /\ kmer_pc' = IF r.raised = "none" THEN kmer_pc + 1 ELSE kmer_pc
    /\ dataset' = data_after_read(dataset)
    /\ UNCHANGED <<base_kmer_counter, kmers, kmer_df, kmer_saved>>

CollectSubsampleKmers ==
    /\ KmerStep("collect_subsample_kmers")
    /\ \E width \in NgramWidths(kmer_size) :
           LET r == collect_subsample_kmers(subsamples, base_kmer_counter, width)
           IN  /\ kmers' = IF r.raised = "none" THEN r.kmer_list ELSE kmers
               /\ base_kmer_counter' = r.base
               /\ kmer_err' = r.raised
               /\ kmer_pc' = IF r.raised = "none" THEN kmer_pc + 1 ELSE kmer_pc
    /\ UNCHANGED <<dataset, subsamples, kmer_df, kmer_saved>>

ConstructKmerDf ==
    /\ KmerStep("construct_kmer_df")
    /\ kmer_df' = construct_kmer_df(kmers)
    /\ kmer_pc' = kmer_pc + 1
    /\ UNCHANGED <<dataset, base_kmer_counter, subsamples, kmers, kmer_err, kmer_saved>>

SaveData ==
    /\ KmerStep("save_data")
    /\ kmer_saved' = <<kmer_df>>
    /\ kmer_pc' = kmer_pc + 1
    /\ UNCHANGED <<dataset, base_kmer_counter, subsamples, kmers, kmer_df, kmer_err>>

NextKmer ==
    \/ CollectRepertoires
    \/ SubSampleRepertoire
    \/ CollectSubsampleKmers
    \/ ConstructKmerDf
    \/ SaveData

SpecKmer == InitKmer /\ [][NextKmer]_vars

(***************************************************************************)
(* complete_preprocess by a KmerPreprocessor given a kmer_size that is not *)
(* positive.  product(..., repeat=kmer_size) raises ValueError in __init__ *)
(* for a negative repeat and yields the one empty tuple for 0.             *)
(***************************************************************************)
NonPositiveKmerSizes == {-1, 0}

InitKmerConfig ==
    /\ \E names \in NameSeqs(CsvNames, Cardinality(CsvNames)) :
           dir \in Dicts(names, KmerRows, MaxKmerRows)
    /\ dataset = <<>>
    /\ pc = 0
    /\ err = "none"
    /\ saved = EmptyMap
    /\ calls = <<>>
    /\ other_data = <<>>
    /\ AnalyzerInit
    /\ subsample_size \in SubsampleSizes
    /\ num_of_samples \in SampleCounts
    /\ kmer_size \in NonPositiveKmerSizes
    /\ base_kmer_counter = IF kmer_size < 0 THEN <<>> ELSE KmerCounter(kmer_size)
    /\ subsamples = <<>>
    /\ kmers = <<>>
    /\ kmer_df = [columns |-> <<>>, rows |-> <<>>]
    /\ kmer_pc = 1
    /\ kmer_err = IF kmer_size < 0 THEN "ValueError" ELSE "none"
    /\ kmer_saved = <<>>

SpecKmerConfig == InitKmerConfig /\ [][NextKmer]_vars

(***************************************************************************)
(* Plotter.make_pca_legend (src/eda.py), and complete_preprocess on the    *)
(* files join_files writes to data/cleaned_files.                          *)
(***************************************************************************)
\* The names numbered in the order of the listing.
make_pca_legend_unsorted(directory) ==
    [i \in DOMAIN directory |-> [key |-> i - 1, val |-> directory[i].id]]

\* {value: disease for value, disease in enumerate(sorted(os.listdir(data_dir)))}
make_pca_legend(directory) ==
    LET listing == sorted({directory[i].id : i \in DOMAIN directory})
    IN  [i \in DOMAIN listing |-> [key |-> i - 1, val |-> listing[i]]]

\* The file names name_files gives: one per supported disease.
CleanedFileNames ==
    {supported_disease_types[k] \o Csv : k \in DOMAIN supported_disease_types}

InitLegend ==
    /\ \E names \in NameSeqs(CleanedFileNames, MaxLegendFiles) :
           dir = [j \in DOMAIN names |->
                     [id |-> names[j], table |-> << Row(CDR3(10), "TRBV1") >>]]
    /\ dataset = <<>>
    /\ pc = 0
    /\ err = "none"
    /\ saved = EmptyMap
    /\ calls = <<>>
    /\ other_data = <<>>
    /\ AnalyzerInit
    /\ subsample_size = 1
    /\ num_of_samples = 1
    /\ kmer_size = 1
    /\ base_kmer_counter = KmerCounter(kmer_size)
    /\ subsamples = <<>>
    /\ kmers = <<>>
    /\ kmer_df = [columns |-> <<>>, rows |-> <<>>]
    /\ kmer_pc = 1
    /\ kmer_err = "none"
    /\ kmer_saved = <<>>

SpecLegend == InitLegend /\ [][NextKmer]_vars

(***************************************************************************)
(* An ExploratoryAnalyzer and a KmerPreprocessor given the same dict of    *)
(* cleaned files: the metric operations, sub_sample_repertoire and         *)
(* collect_subsample_kmers called in any order.                            *)
(***************************************************************************)
ReaderSubsampleSizes == {1, 2}

InitReaders ==
    /\ \/ \E n \in 0..Len(EdaNames) :
              dataset \in Dicts(SubSeq(EdaNames, 1, n), EdaRows, MaxEdaRows)
       \/ dataset \in EdaFixtures
    /\ other_data \in EarlierDicts
    /\ dir = <<>>
    /\ pc = 0
    /\ err = "none"
    /\ saved = EmptyMap
    /\ calls = <<>>
    /\ AnalyzerInit
    /\ subsample_size \in ReaderSubsampleSizes
    /\ num_of_samples = 1
    /\ kmer_size = 1
    /\ base_kmer_counter = KmerCounter(kmer_size)
    /\ subsamples = <<>>
    /\ kmers = <<>>
    /\ kmer_df = [columns |-> <<>>, rows |-> <<>>]
    /\ kmer_pc = 0
    /\ kmer_err = "none"
    /\ kmer_saved = <<>>

\* A call of the preprocessor made on its own, entered in the history.
ReaderCall(op, arg, raised) ==
    /\ Len(calls) < MaxReaderCalls
    /\ calls' = Append(calls, [op |-> op, arg |-> arg, raised |-> raised])
    /\ UNCHANGED <<dir, pc, err, saved>>
    /\ UNCHANGED edaVars
    /\ UNCHANGED <<subsample_size, num_of_samples, kmer_size, kmer_df, kmer_pc,
                   kmer_err, kmer_saved>>

CallSubSampleRepertoire ==
    /\ \E r \in sub_sample_repertoire(dataset, num_of_samples, subsample_size) :
           /\ subsamples' = IF r.raised = "none" THEN r.ret ELSE subsamples
           /\ ReaderCall("sub_sample_repertoire", dataset, r.raised)
    /\ dataset' = data_after_read(dataset)
    /\ UNCHANGED <<base_kmer_counter, kmers>>

CallCollectSubsampleKmers ==
    /\ \E width \in NgramWidths(kmer_size) :
           LET r == collect_subsample_kmers(subsamples, base_kmer_counter, width)
           IN  /\ kmers' = IF r.raised = "none" THEN r.kmer_list ELSE kmers
               /\ base_kmer_counter' = r.base
               /\ ReaderCall("collect_subsample_kmers", subsamples, r.raised)
    /\ UNCHANGED <<dataset, subsamples>>

NextReaders ==
    \/ CountSequencesPerDisease
    \/ CountSequenceLengthMetrics
    \/ CountGeneUsage
    \/ ComputeJaccardIndex
    \/ CountAaOccurrences
    \/ CallSubSampleRepertoire
    \/ CallCollectSubsampleKmers

SpecReaders == InitReaders /\ [][NextReaders]_vars

(***************************************************************************)
(* Properties of the K-mer Feature Extractor.                              *)
(***************************************************************************)
\* The reorderings of a dict.
Presentations(d) ==
    {[i \in DOMAIN d |-> d[q[i]]] :
        q \in {f \in [DOMAIN d -> DOMAIN d] : \A a, b \in DOMAIN d : f[a] = f[b] => a = b}}

\* A dict as the set of its (key, value) pairs.
Mapping(d) == {<<d[i].key, d[i].val>> : i \in DOMAIN d}

\* collect_subsample_kmers returned: kmers holds its list.
KmersReturned == kmer_pc >= 4

SubsampleOfRow(j) ==
    subsamples[((j - 1) \div num_of_samples) + 1].samples[((j - 1) % num_of_samples) + 1]

RepertoireOfRow(j) == subsamples[((j - 1) \div num_of_samples) + 1].id

\* The (sequence, start position) pairs at which kmer occurs in the sequences.
OccurrencesOf(kmer, sequences) ==
    {<<i, start>> \in UNION {{<<i, st>> : st \in 1..(Len(sequences[i]) - Len(kmer) + 1)} :
                                i \in DOMAIN sequences} :
        SubSeq(sequences[i], start, start + Len(kmer) - 1) = kmer}

\* A feature row without its target: the k-mer counts.
CountsOf(row) == SubSeq(row, 1, Len(row) - 1)

RECURSIVE TotalCount(_, _, _)
\* The counts at the positions lo..hi added up.
TotalCount(counts, lo, hi) ==
    IF lo > hi THEN 0
    ELSE IF lo = hi THEN counts[lo].val
    ELSE TotalCount(counts, lo, (lo + hi) \div 2) + TotalCount(counts, ((lo + hi) \div 2) + 1, hi)

\* C17: the count of each k-mer in a feature row is the number of
\* (sequence, start position) pairs at which it occurs in the subsample, with
\* overlapping windows; the counts add up to the sum over the sequences of
\* max(0, length - k + 1), so a sequence shorter than k adds nothing.
C17_OverlappingWindowCounts ==
    KmersReturned =>
        \A j \in DOMAIN kmers :
            LET counts == CountsOf(kmers[j])
                sequences == SubsampleOfRow(j)
            IN  /\ \A c \in DOMAIN counts :
                       counts[c].val = Cardinality(OccurrencesOf(counts[c].key, sequences))
                /\ TotalCount(counts, 1, Len(counts))
                       = Sum([i \in DOMAIN sequences |->
                                 IF Len(sequences[i]) - kmer_size + 1 > 0
                                 THEN Len(sequences[i]) - kmer_size + 1 ELSE 0])

\* C17 witness: with k = 2 a subsample of 'CASSLGGDFDTEAFF' and a sequence
\* shorter than k was counted: 14 windows, each k-mer met once.
C17_Witness ==
    /\ KmersReturned
    /\ kmer_size = 2
    /\ \E j \in DOMAIN kmers :
           /\ SubsampleOfRow(j) =
                  << <<"C", "A", "S", "S", "L", "G", "G", "D", "F", "D", "T", "E", "A", "F", "F">>,
                     <<"C">> >>
           /\ TotalCount(CountsOf(kmers[j]), 1, Len(CountsOf(kmers[j]))) = 14
           /\ \A c \in DOMAIN CountsOf(kmers[j]) : CountsOf(kmers[j])[c].val <= 1

RECURSIVE Power(_, _)
Power(base, exponent) == IF exponent = 0 THEN 1 ELSE base * Power(base, exponent - 1)

\* C18: every feature row has exactly the 20^k k-mers of the vocabulary and
\* then 'target' as keys, in the same order in every row, whatever the
\* subsample holds.
C18_VocabularyComplete ==
    \A j \in DOMAIN kmers :
        LET keys == Keys(kmers[j])
        IN  /\ Len(keys) = Power(20, kmer_size) + 1
            /\ keys[Len(keys)] = target
            /\ {keys[c] : c \in 1..(Len(keys) - 1)}
                   = [1..kmer_size -> {alphabet[a] : a \in DOMAIN alphabet}]
            /\ keys = Keys(kmers[1])

\* C18 witness: with k = 2, two feature rows of 401 keys counted from
\* subsamples that hold different k-mers.
C18_Witness ==
    /\ kmer_size = 2
    /\ Len(kmers) >= 2
    /\ Len(kmers[1]) = 401
    /\ \E i, j \in DOMAIN kmers : CountsOf(kmers[i]) # CountsOf(kmers[j])

\* The number of ids that sort before id.
RankOf(id, ids) == Cardinality({other \in ids : StrLess(other, id)})

\* construct_kmer_df returned: kmer_df holds the feature matrix.
KmerDfBuilt == kmer_pc >= 5

\* C19: the feature matrix has num_of_samples x (number of repertoires)
\* rows, one per subsample, and the target of each row is the integer
\* create_targets gives the repertoire the subsample was drawn from.
C19_RowsAndTargets ==
    KmerDfBuilt =>
        /\ Len(kmer_df.rows) = num_of_samples * Len(dataset)
        /\ Len(kmers) = Len(kmer_df.rows)
        /\ \A j \in DOMAIN kmer_df.rows :
               /\ kmer_df.columns[Len(kmer_df.columns)] = target
               /\ kmer_df.rows[j][Len(kmer_df.columns)]
                      = RankOf(RepertoireOfRow(j), {dataset[i].id : i \in DOMAIN dataset})
               /\ RepertoireOfRow(j) = dataset[((j - 1) \div num_of_samples) + 1].id

\* C19 witness: a matrix of four rows, two subsamples of each of two
\* repertoires presented in descending order of their ids.
C19_Witness ==
    /\ KmerDfBuilt
    /\ num_of_samples = 2
    /\ Len(dataset) = 2
    /\ StrLess(dataset[2].id, dataset[1].id)
    /\ Len(kmer_df.rows) = 4
    /\ kmer_df.rows[1][Len(kmer_df.columns)] = 1
    /\ kmer_df.rows[4][Len(kmer_df.columns)] = 0

\* C20: sub_sample_repertoire returns, for every repertoire, exactly
\* num_of_samples subsamples of exactly subsample_size sequences, each an
\* AASeq value of that repertoire; with every repertoire non-empty the call
\* is not an error, however few rows a repertoire has.
C20_SubsampleShape ==
    /\ kmer_pc >= 3 =>
           /\ [i \in DOMAIN subsamples |-> subsamples[i].id] = [i \in DOMAIN dataset |-> dataset[i].id]
           /\ \A i \in DOMAIN subsamples :
                  /\ Len(subsamples[i].samples) = num_of_samples
                  /\ \A k \in DOMAIN subsamples[i].samples :
                         /\ Len(subsamples[i].samples[k]) = subsample_size
                         /\ \A x \in DOMAIN subsamples[i].samples[k] :
                                \E r \in DOMAIN dataset[i].table :
                                    dataset[i].table[r].AASeq = subsamples[i].samples[k][x]
    /\ (KmerStmt = "sub_sample_repertoire" /\ kmer_err # "none")
           => \E i \in DOMAIN dataset : dataset[i].table = <<>>

C23_FirstMatchInVocabularyOrder ==
    \A i \in JoinCalls :
        \A f \in DOMAIN calls[i].arg :
            LET id == calls[i].arg[f].id
                support == check_for_support(id)
            IN  /\ support.raised = "DiseaseNotSupportedError"
                       <=> \A k \in DOMAIN supported_disease_types :
                               ~Contains(supported_disease_types[k], id)
                /\ support.raised \in {"none", "DiseaseNotSupportedError"}
                /\ support.raised = "none" =>
                       \E k \in DOMAIN supported_disease_types :
                           /\ support.disease = supported_disease_types[k]
                           /\ Contains(supported_disease_types[k], id)
                           /\ \A j \in 1..(k - 1) :
                                  ~Contains(supported_disease_types[j], id)
                /\ JoinReturned => name_files(support.disease) \in DOMAIN saved

\* C23 witness: join_files returned on a collection with an id that holds
\* 'lung' before 'breast'; it wrote breast.csv and no lung.csv.
C23_Witness ==
    /\ JoinReturned
    /\ \E i \in JoinCalls :
           \E f \in DOMAIN calls[i].arg :
               /\ Contains(Lung \o <<"_">> \o Breast, calls[i].arg[f].id)
               /\ check_for_support(calls[i].arg[f].id).disease = Breast
    /\ name_files(Breast) \in DOMAIN saved
    /\ name_files(Lung) \notin DOMAIN saved

Trimmed(row) == [row EXCEPT !.AASeq = strip(@)]

AbnormalTable(table) ==
    /\ Len(table) = 4
    /\ \E a, b \in DOMAIN table :
           /\ a # b
           /\ \E k \in DOMAIN table[a].AASeq : table[a].AASeq[k] = "+"
           /\ Len(table[b].AASeq) = 5
           /\ \A r \in DOMAIN table \ {a} : NoSpecialCharacter(table[r].AASeq)
           /\ \A r \in DOMAIN table \ {a, b} :
                  /\ table[r].AASeq = strip(table[r].AASeq)
                  /\ Len(table[r].AASeq) \in 10..24

\* After remove_special_characters on such a table `first` rows remain, and
\* `second` rows after assert_size on its result.
RowsRemaining(first, second) ==
    \A i \in DOMAIN calls :
        (calls[i].op = "remove_special_characters"
         /\ \E f \in DOMAIN calls[i].arg : AbnormalTable(calls[i].arg[f].table)) =>
            \A f \in DOMAIN calls[i].arg :
                AbnormalTable(calls[i].arg[f].table) =>
                    /\ Len(calls[i].ret[f].table) = first
                    /\ (i + 1 \in DOMAIN calls /\ calls[i + 1].op = "assert_size")
                           => Len(calls[i + 1].ret[f].table) = second

\* C25 as stated: of the 4 rows, 2 remain after the special-character filter
\* and 1 after the length filter is also applied.
C25_TwoThenOneRemain == RowsRemaining(2, 1)

\* C25 amended: of the 4 rows, 3 remain after the special-character filter
\* (only the row with '+' goes) and 2 after the length filter is also
\* applied (the row of length 5 goes).
C25_ThreeThenTwoRemain == RowsRemaining(3, 2)

\* C25 witness: remove_special_characters and then assert_size ran on such
\* a table, leaving its two rows within the norms.
C25_Witness ==
    /\ Len(calls) = 2
    /\ calls[1].op = "remove_special_characters"
    /\ calls[2].op = "assert_size"
    /\ Len(calls[1].arg) = 1
    /\ AbnormalTable(calls[1].arg[1].table)
    /\ Len(calls[1].ret[1].table) = 3
    /\ Len(calls[2].ret[1].table) = 2
    /\ \A r \in DOMAIN calls[2].ret[1].table :
           Len(calls[2].ret[1].table[r].AASeq) \in {10, 24}

\* The three filters ran first, in the order of the pipeline.
FiltersRan ==
    /\ Len(calls) >= 3
    /\ calls[1].op = "remove_special_characters"
    /\ calls[2].op = "assert_size" /\ calls[2].arg = calls[1].ret
    /\ calls[3].op = "remove_incomplete_seqs" /\ calls[3].arg = calls[2].ret

\* What the pipeline requires of a trimmed AASeq.
Canonical(seq) ==
    /\ seq = strip(seq)
    /\ NoSpecialCharacter(seq)
    /\ Len(seq) \in 10..24
    /\ StartsCEndsF(seq)

C22_SubsampleDeterministic ==
    KmerStmt = "sub_sample_repertoire" /\ kmer_err = "none"
        => Cardinality(sub_sample_repertoire(dataset, num_of_samples, subsample_size)) = 1

\* C26: a KmerPreprocessor given kmer_size <= 0 is rejected: it never returns
\* a count vector from collect_subsample_kmers and never builds a feature row.
C26_NonPositiveKRejected ==
    kmer_size <= 0 => kmers = <<>> /\ kmer_df.rows = <<>> /\ kmer_saved = <<>>

====
